---- MODULE Spec2Model ----
(***************************************************************************)
(* Chat request lifecycle of the Gemini chatbot: the chat POST handler     *)
(* (src/app/api/chat/route.ts), the chat-history GET handler               *)
(* (src/app/api/chat-history/route.ts), the chat_messages table they       *)
(* share (README, "Database Setup"), the upload handler                    *)
(* (src/app/api/upload-pdf/route.ts), the chatbot page with its uploads,   *)
(* queries and history loads (src/app/chatbot/page.tsx), the AuthProvider  *)
(* (src/contexts/AuthContext.tsx) and the route-protection middleware      *)
(* (src/lib/supabase/server.ts).                                           *)
(*                                                                         *)
(* A handler invocation shares no in-process state with any other; the     *)
(* only shared object is the table, which one invocation touches at most   *)
(* once (one insert or one select).  Each invocation is therefore one      *)
(* atomic action, and `inv` holds the frame of the invocation that         *)
(* returned last: its locals, the calls it made and its response.          *)
(*                                                                         *)
(* Text is a sequence of fragments (characters or literals), so that       *)
(* template strings and + are sequence concatenation.                      *)
(***************************************************************************)
EXTENDS Integers, Sequences, FiniteSets, TLC

\* ---------------------------------------------------------------- bounds
MaxLen == 1        \* longest string a request body carries
MaxPosts == 2      \* chat POST invocations in one behaviour
MaxClock == 1      \* largest value of the store's now()
MaxExcess == 1     \* characters by which a document exceeds the prompt limit
MaxFetches == 2    \* history fetches the chatbot page starts in one behaviour
MaxNow == 1        \* largest value of the browser's clock
MaxAuthEvents == 2 \* auth state changes in one behaviour
MaxSegments == 2   \* fragments that follow the first segment of a pathname
MaxRedirects == 2  \* redirects the browser follows for one navigation
MaxMessages == 3   \* messages on display when the page starts an operation

\* ------------------------------------------------------ JavaScript values
Chars == {"a", " "}

RECURSIVE StringsUpTo(_)
StringsUpTo(n) ==
  IF n = 0 THEN {<< >>}
  ELSE LET S == StringsUpTo(n - 1)
       IN  S \cup {Append(s, c) : s \in {t \in S : Len(t) = n - 1}, c \in Chars}

Undefined == [t |-> "undefined", v |-> << >>]
Null      == [t |-> "null", v |-> << >>]
Num(n)    == [t |-> "number", v |-> <<n>>]
Str(s)    == [t |-> "string", v |-> s]
Bool(b)   == [t |-> "boolean", v |-> IF b THEN <<"true">> ELSE <<"false">>]

JsStrings == {Str(s) : s \in StringsUpTo(MaxLen)}
JsValues  == {Undefined, Null, Num("0"), Num("1")} \cup JsStrings

\* ToBoolean
Truthy(x) ==
  CASE x.t = "undefined" -> FALSE
    [] x.t = "null"      -> FALSE
    [] x.t = "number"    -> x.v # <<"0">>
    [] x.t = "boolean"   -> x.v = <<"true">>
    [] x.t = "string"    -> x.v # << >>
    [] OTHER             -> TRUE

\* String.prototype.trim
RECURSIVE TrimStart(_)
TrimStart(s) == IF s # << >> /\ Head(s) = " " THEN TrimStart(Tail(s)) ELSE s

RECURSIVE TrimEnd(_)
TrimEnd(s) ==
  IF s # << >> /\ s[Len(s)] = " " THEN TrimEnd(SubSeq(s, 1, Len(s) - 1)) ELSE s

Trim(s) == TrimEnd(TrimStart(s))

\* String.prototype.substring(0, n)
Substring0(s, n) == SubSeq(s, 1, IF n < Len(s) THEN n ELSE Len(s))

\* --------------------------------------------------------- external calls
Principals == {"u1", "u2"}

\* supabase.auth.getUser(): a user, no user, or a rejected promise
NotAsked     == [kind |-> "notasked", id |-> "null"]
AuthOutcomes == {[kind |-> "user", id |-> p] : p \in Principals}
                  \cup {[kind |-> "none", id |-> "null"],
                        [kind |-> "throws", id |-> "null"]}

\* error.message of an exception raised by an external call
NoException       == [is |-> FALSE, message |-> << >>]
Thrown(m)         == [is |-> TRUE, message |-> m]
ExceptionMessages == {<< >>, <<"E_INTERNAL_DETAIL">>}
Exceptions        == {Thrown(m) : m \in ExceptionMessages}
\* const { query, pdfText } = null
DestructureNull   == Thrown(<<"Cannot destructure property 'query' of 'body' as it is null.">>)

\* request.json(): a rejected promise, the JSON value null, or a value whose
\* properties query and pdfText can be read (absent ones are undefined)
Unread == [kind |-> "unread", query |-> Undefined, pdfText |-> Undefined]
Bodies == {[kind |-> "unparseable", query |-> Undefined, pdfText |-> Undefined],
           [kind |-> "null", query |-> Undefined, pdfText |-> Undefined]}
            \cup {[kind |-> "object", query |-> q, pdfText |-> p] :
                    q \in JsValues, p \in JsValues}

\* model.generateContent(fullPrompt) and response.text()
ResponseTexts == {<< >>, <<"r">>}
BlockReasons  == {"none", "SAFETY", "OTHER"}
FinishReasons == {"nocandidate", "none", "STOP", "SAFETY", "MAX_TOKENS"}
NotCalled     == [kind |-> "notcalled", text |-> << >>,
                  blockReason |-> "none", finishReason |-> "nocandidate"]
GenResults    ==
  {[kind |-> k, text |-> << >>, blockReason |-> "none",
    finishReason |-> "nocandidate"] : k \in {"throws", "noResponse", "textThrows"}}
    \cup {[kind |-> "response", text |-> t, blockReason |-> b, finishReason |-> f] :
            t \in ResponseTexts, b \in BlockReasons, f \in FinishReasons}

\* the select on chat_messages: rows, or a dbError carrying a message
NotSelected    == [kind |-> "notrun", message |-> << >>]
SelectOutcomes == {[kind |-> "rows", message |-> << >>]}
                    \cup {[kind |-> "error", message |-> m] : m \in ExceptionMessages}

\* ------------------------------------------------------------------ state
VARIABLES
  GEMINI_API_KEY,    \* TRUE iff process.env.GEMINI_API_KEY is set
  chat_messages,     \* the table, in insertion order
  clock,             \* the store's now()
  posts,             \* chat POST invocations so far
  inv,               \* frame of the handler invocation that returned last
  messages,          \* chatbot page: the messages on display
  historyLoaded,     \* chatbot page: state of the same name
  isLoadingHistory,  \* chatbot page: state of the same name
  loads,             \* chatbot page: history fetches awaiting their response
  fetches,           \* chatbot page: history fetches started so far
  dateNow,           \* the browser's clock, Date.now()
  uploadedPdfText,   \* chatbot page: state of the same name
  pdfName,           \* chatbot page: state of the same name
  isProcessingQuery, \* chatbot page: state of the same name
  isUploadingPdf,    \* chatbot page: state of the same name
  pageError,         \* chatbot page: state of the same name
  chatFetch,         \* chatbot page: the chat request awaiting its response
  uploadFetch,       \* chatbot page: the upload awaiting its response
  session,           \* AuthProvider: state of the same name
  authUser,          \* AuthProvider: the state `user`
  isLoading,         \* AuthProvider: state of the same name
  authSession,       \* the session the auth client holds
  getSession,        \* AuthProvider: the getSession() call of the effect
  authEvents,        \* auth state changes so far
  nav                \* the navigation the middleware handled last

pageVars == <<messages, historyLoaded, isLoadingHistory, loads, fetches, dateNow>>

\* the rest of the chatbot page's state
formVars == <<uploadedPdfText, pdfName, isProcessingQuery, isUploadingPdf,
              pageError, chatFetch, uploadFetch>>

authVars == <<session, authUser, isLoading, authSession, getSession, authEvents>>

\* everything that lives in the browser
browserVars == <<pageVars, formVars, authVars, nav>>

serverVars == <<GEMINI_API_KEY, chat_messages, clock, posts, inv>>

vars == <<serverVars, browserVars>>

\* -------------------------------------------------------- chat_messages
\* README "Table Schema": user_query text NOT NULL, pdf_context_used boolean
\* NOT NULL DEFAULT false (an absent key takes the default; null and a
\* non-boolean string are rejected; the number 0 reads as false).
SchemaAccepts(payload) ==
  /\ payload.user_id # "null"
  /\ payload.user_query.t = "string"
  /\ payload.pdf_context_used.t \in {"undefined", "boolean", "number"}

ColumnBoolean(x) == IF x.t = "undefined" THEN FALSE ELSE Truthy(x)

\* the insert as an overwrite: the new row replaces what the table held
Insert_Overwrites(table, payload, dbOk, now) ==
  IF dbOk /\ SchemaAccepts(payload)
  THEN [ok    |-> TRUE,
        table |-> << [id               |-> ToString(Len(table) + 1),
                      created_at       |-> now,
                      user_id          |-> payload.user_id,
                      user_query       |-> payload.user_query.v,
                      bot_response     |-> payload.bot_response,
                      pdf_context_used |-> ColumnBoolean(payload.pdf_context_used)] >>]
  ELSE [ok |-> FALSE, table |-> table]

\* supabase.from('chat_messages').insert(payload); dbOk = FALSE is any
\* failure of the store (outage, row-level policy, unknown column).
Insert(table, payload, dbOk, now) ==
  IF dbOk /\ SchemaAccepts(payload)
  THEN [ok    |-> TRUE,
        table |-> Append(table,
                    [id               |-> ToString(Len(table) + 1),
                     created_at       |-> now,
                     user_id          |-> payload.user_id,
                     user_query       |-> payload.user_query.v,
                     bot_response     |-> payload.bot_response,
                     pdf_context_used |-> ColumnBoolean(payload.pdf_context_used)])]
  ELSE [ok |-> FALSE, table |-> table]

\* ------------------------------------------------------ handler frames
ErrorBody(text)   == [kind |-> "error", text |-> text, messages |-> << >>]
ReplyBody(text)   == [kind |-> "reply", text |-> text, messages |-> << >>]
HistoryBody(msgs) == [kind |-> "history", text |-> << >>, messages |-> msgs]
TextBody(text)    == [kind |-> "text", text |-> text, messages |-> << >>]
NoBody            == [kind |-> "none", text |-> << >>, messages |-> << >>]

\* request.formData() of an upload that has not been read
NoForm == [kind |-> "unread", file |-> [t |-> "null", v |-> << >>, type |-> "undefined"]]

\* the locals of a freshly entered handler; caller is what getUser() answers
\* for the cookies of the request
Frame(h, auth) ==
  [handler           |-> h,
   caller            |-> auth,
   userIdForDb       |-> "null",
   body              |-> Unread,
   originalUserQuery |-> Str(<<"User query not available">>),
   prompts           |-> << >>,       \* one entry per generateContent call
   result            |-> NotCalled,
   thrown            |-> NoException, \* the exception the catch block received
   inserts           |-> << >>,       \* one entry per insert attempted
   selected          |-> NotSelected, \* outcome of the select, if it ran
   rows              |-> << >>,       \* what the select returned
   form              |-> NoForm,      \* what request.formData() answered
   extractions       |-> << >>,       \* one entry per pdf() call
   status            |-> 0,
   resBody           |-> NoBody]

\* return NextResponse.json(body, { status })
Return(f, table, status, body) ==
  [frame |-> [f EXCEPT !.status = status, !.resBody = body], table |-> table]

\* ------------------------------------------------------------- chat POST
InvalidQuery(query) ==
  \/ ~Truthy(query)
  \/ query.t # "string"
  \/ Trim(query.v) = << >>

\* the trim() test left out: a blank string counts as context
WasPdfContextUsed_BlankCounts(pdfText) ==
  IF ~Truthy(pdfText) THEN pdfText
  ELSE IF pdfText.t # "string" THEN Bool(FALSE)
  ELSE Bool(TRUE)

\* a && b && c is the first falsy operand, else the last operand
WasPdfContextUsed(pdfText) ==
  IF ~Truthy(pdfText) THEN pdfText
  ELSE IF pdfText.t # "string" THEN Bool(FALSE)
  ELSE Bool(Trim(pdfText.v) # << >>)

MAX_PDF_TEXT_LENGTH == 70000
TruncationMarker == "[...PDF text truncated due to length...]"
DocumentFraming  == "Based on the following document text, please answer the user's question."

\* >= for >: a text of exactly the maximum length is marked as truncated
FullPrompt_TruncatesAtLimit(query, pdfText, wasPdfContextUsed) ==
  IF Truthy(wasPdfContextUsed)
  THEN LET truncatedPdfText ==
             IF Len(pdfText.v) >= MAX_PDF_TEXT_LENGTH
             THEN Append(Substring0(pdfText.v, MAX_PDF_TEXT_LENGTH), TruncationMarker)
             ELSE pdfText.v
       IN  <<DocumentFraming, "Document Text: ---">> \o truncatedPdfText
             \o <<"--- User Question: ">> \o query.v \o <<"Answer:">>
  ELSE <<"User Question: ">> \o query.v \o <<"Answer:">>

\* the prompt of route.ts, lines 62-84
FullPrompt(query, pdfText, wasPdfContextUsed) ==
  IF Truthy(wasPdfContextUsed)
  THEN LET truncatedPdfText ==
             IF Len(pdfText.v) > MAX_PDF_TEXT_LENGTH
             THEN Append(Substring0(pdfText.v, MAX_PDF_TEXT_LENGTH), TruncationMarker)
             ELSE pdfText.v
       IN  <<DocumentFraming, "Document Text: ---">> \o truncatedPdfText
             \o <<"--- User Question: ">> \o query.v \o <<"Answer:">>
  ELSE <<"User Question: ">> \o query.v \o <<"Answer:">>

DefaultBlockMessage == <<"Response generation failed or was blocked.">>
QueryBlockedMessage == <<"Your query was blocked due to safety concerns. Please rephrase.">>
ResponseBlockedMessage ==
  <<"The generated response was blocked due to safety concerns. Please try a different query.">>
EmptyResponseMessage == <<"I received an empty response from the AI. Could you try rephrasing?">>

\* the SAFETY branch left out: every block reason takes the generic branch
PromptFeedbackMessage_NoSafetyCase(result, blockReasonMessage) ==
  IF result.blockReason # "none"
  THEN <<"There was an issue with the prompt. Reason: ", result.blockReason, ".">>
  ELSE blockReasonMessage

\* the if / else-if on response.promptFeedback
PromptFeedbackMessage(result, blockReasonMessage) ==
  IF result.blockReason = "SAFETY" THEN QueryBlockedMessage
  ELSE IF result.blockReason # "none"
       THEN <<"There was an issue with the prompt. Reason: ", result.blockReason, ".">>
       ELSE blockReasonMessage

\* the !== FinishReason.STOP test left out
CandidateMessage_StopIsAbnormal(result, blockReasonMessage) ==
  IF result.finishReason = "SAFETY" THEN ResponseBlockedMessage
  ELSE IF result.finishReason \notin {"nocandidate", "none"}
       THEN <<"Response generation incomplete. Reason: ", result.finishReason,
              ". Try a shorter query or PDF.">>
       ELSE blockReasonMessage

\* the if / else-if on response.candidates?.[0]
CandidateMessage(result, blockReasonMessage) ==
  IF result.finishReason = "SAFETY" THEN ResponseBlockedMessage
  ELSE IF result.finishReason \notin {"nocandidate", "none", "STOP"}
       THEN <<"Response generation incomplete. Reason: ", result.finishReason,
              ". Try a shorter query or PDF.">>
       ELSE blockReasonMessage

\* if (!responseText) { ... }
EmptyText(f, table) ==
  LET blockReasonMessage ==
        CandidateMessage(f.result, PromptFeedbackMessage(f.result, DefaultBlockMessage))
  IN  IF blockReasonMessage = DefaultBlockMessage
      THEN Return(f, table, 500, ErrorBody(EmptyResponseMessage))
      ELSE Return(f, table, 400, ErrorBody(blockReasonMessage))

\* the insert writes pdf_context_used: false whatever the request carried
Persist_FlagDropped(f, table, query, responseText, wasPdfContextUsed, dbOk, now) ==
  LET payload == [user_id          |-> f.userIdForDb,
                  user_query       |-> query,
                  bot_response     |-> responseText,
                  pdf_context_used |-> Bool(FALSE),
                  isError          |-> FALSE]
      ins == Insert(table, payload, dbOk, now)
  IN  Return([f EXCEPT !.inserts = Append(@, [payload |-> payload, ok |-> ins.ok])],
             ins.table, 200, ReplyBody(responseText))

\* a dbError fails the request
Persist_FailsOnDbError(f, table, query, responseText, wasPdfContextUsed, dbOk, now) ==
  LET payload == [user_id          |-> f.userIdForDb,
                  user_query       |-> query,
                  bot_response     |-> responseText,
                  pdf_context_used |-> wasPdfContextUsed,
                  isError          |-> FALSE]
      ins == Insert(table, payload, dbOk, now)
      g   == [f EXCEPT !.inserts = Append(@, [payload |-> payload, ok |-> ins.ok])]
  IN  IF ins.ok THEN Return(g, ins.table, 200, ReplyBody(responseText))
      ELSE Return(g, ins.table, 500, ErrorBody(<<"Failed to save chat message.">>))

\* a refused insert is attempted a second time
Persist_RetriesInsert(f, table, query, responseText, wasPdfContextUsed, dbOk, now) ==
  LET payload == [user_id          |-> f.userIdForDb,
                  user_query       |-> query,
                  bot_response     |-> responseText,
                  pdf_context_used |-> wasPdfContextUsed,
                  isError          |-> FALSE]
      ins   == Insert(table, payload, dbOk, now)
      again == Insert(ins.table, payload, TRUE, now)
      g     == [f EXCEPT !.inserts = Append(@, [payload |-> payload, ok |-> ins.ok])]
  IN  IF ins.ok THEN Return(g, ins.table, 200, ReplyBody(responseText))
      ELSE Return([g EXCEPT !.inserts = Append(@, [payload |-> payload, ok |-> again.ok])],
                  again.table, 200, ReplyBody(responseText))

\* "Save to DB" and the reply
Persist(f, table, query, responseText, wasPdfContextUsed, dbOk, now) ==
  LET payload == [user_id          |-> f.userIdForDb,
                  user_query       |-> query,
                  bot_response     |-> responseText,
                  pdf_context_used |-> wasPdfContextUsed,
                  isError          |-> FALSE]
      ins == Insert(table, payload, dbOk, now)
  IN  Return([f EXCEPT !.inserts = Append(@, [payload |-> payload, ok |-> ins.ok])],
             ins.table, 200, ReplyBody(responseText))

UnexpectedErrorMessage ==
  <<"An unexpected error occurred while processing your chat request.">>

\* the if (userIdForDb) guard left out
Catch_IgnoresUserId(f, table, error, dbOk, now) ==
  LET errorMessage == IF error.message # << >> THEN error.message
                      ELSE UnexpectedErrorMessage
      payload == [user_id          |-> f.userIdForDb,
                  user_query       |-> f.originalUserQuery,
                  bot_response     |-> <<"SYSTEM ERROR: ">> \o errorMessage,
                  pdf_context_used |-> Bool(FALSE),
                  isError          |-> TRUE]
      ins == Insert(table, payload, dbOk, now)
      g   == [f EXCEPT !.thrown = error]
  IN  Return([g EXCEPT !.inserts = Append(@, [payload |-> payload, ok |-> ins.ok])],
             ins.table, 500, ErrorBody(errorMessage))

\* the error record always carries the initial placeholder as its query
Catch_PlaceholderQuery(f, table, error, dbOk, now) ==
  LET errorMessage == IF error.message # << >> THEN error.message
                      ELSE UnexpectedErrorMessage
      payload == [user_id          |-> f.userIdForDb,
                  user_query       |-> Str(<<"User query not available">>),
                  bot_response     |-> <<"SYSTEM ERROR: ">> \o errorMessage,
                  pdf_context_used |-> Bool(FALSE),
                  isError          |-> TRUE]
      ins == Insert(table, payload, dbOk, now)
      g   == [f EXCEPT !.thrown = error]
  IN  IF f.userIdForDb # "null"
      THEN Return([g EXCEPT !.inserts = Append(@, [payload |-> payload, ok |-> ins.ok])],
                  ins.table, 500, ErrorBody(errorMessage))
      ELSE Return(g, table, 500, ErrorBody(errorMessage))

\* catch (error) { ... }
Catch(f, table, error, dbOk, now) ==
  LET errorMessage == IF error.message # << >> THEN error.message
                      ELSE UnexpectedErrorMessage
      payload == [user_id          |-> f.userIdForDb,
                  user_query       |-> f.originalUserQuery,
                  bot_response     |-> <<"SYSTEM ERROR: ">> \o errorMessage,
                  pdf_context_used |-> Bool(FALSE),
                  isError          |-> TRUE]
      ins == Insert(table, payload, dbOk, now)
      g   == [f EXCEPT !.thrown = error]
  IN  IF f.userIdForDb # "null"
      THEN Return([g EXCEPT !.inserts = Append(@, [payload |-> payload, ok |-> ins.ok])],
                  ins.table, 500, ErrorBody(errorMessage))
      ELSE Return(g, table, 500, ErrorBody(errorMessage))

\* the if (!responseText) branch left out: an empty text is saved and sent
Generate_PersistsEmptyText(f, table, query, wasPdfContextUsed, exc, dbOk, now) ==
  IF f.result.kind \in {"throws", "textThrows"} THEN Catch(f, table, exc, dbOk, now)
  ELSE IF f.result.kind = "noResponse"
  THEN Return(f, table, 500,
              ErrorBody(<<"Gemini API communication error. No response object.">>))
  ELSE Persist(f, table, query, f.result.text, wasPdfContextUsed, dbOk, now)

\* from model.generateContent to the end of the try block
Generate(f, table, query, wasPdfContextUsed, exc, dbOk, now) ==
  IF f.result.kind \in {"throws", "textThrows"} THEN Catch(f, table, exc, dbOk, now)
  ELSE IF f.result.kind = "noResponse"
  THEN Return(f, table, 500,
              ErrorBody(<<"Gemini API communication error. No response object.">>))
  ELSE IF f.result.text = << >> THEN EmptyText(f, table)
  ELSE Persist(f, table, query, f.result.text, wasPdfContextUsed, dbOk, now)

\* from request.json() to the prompt
HandleBody(f, table, body, gen, exc, dbOk, now) ==
  IF body.kind = "unparseable" THEN Catch(f, table, exc, dbOk, now)
  ELSE IF body.kind = "null" THEN Catch(f, table, DestructureNull, dbOk, now)
  ELSE
    LET query   == body.query
        pdfText == body.pdfText
        g == [f EXCEPT !.originalUserQuery =
                IF Truthy(query) THEN query
                ELSE Str(<<"User query not available in body">>)]
    IN  IF InvalidQuery(query)
        THEN Return(g, table, 400,
                    ErrorBody(<<"Query is required and must be a non-empty string.">>))
        ELSE
          LET wasPdfContextUsed == WasPdfContextUsed(pdfText)
              fullPrompt == FullPrompt(query, pdfText, wasPdfContextUsed)
              h == [g EXCEPT !.prompts = Append(@, fullPrompt), !.result = gen]
          IN  Generate(h, table, query, wasPdfContextUsed, exc, dbOk, now)

\* the session check left out
NoUser_IgnoresSession(user) == FALSE

\* if (!user)
NoUser(user) == user.kind # "user"

\* export async function POST(request)
POST(auth, body, gen, exc, dbOk) ==
  IF ~GEMINI_API_KEY
  THEN Return(Frame("POST", auth), chat_messages, 500,
              ErrorBody(<<"API configuration error. Please contact support.">>))
  ELSE
    LET f == Frame("POST", auth) IN
    IF auth.kind = "throws" THEN Catch(f, chat_messages, exc, dbOk, clock)
    ELSE IF NoUser(auth)
    THEN Return(f, chat_messages, 401,
                ErrorBody(<<"Unauthorized: You must be logged in to chat.">>))
    ELSE HandleBody([f EXCEPT !.userIdForDb = auth.id, !.body = body],
                    chat_messages, body, gen, exc, dbOk, clock)

\* the external calls an invocation makes: request.json() is reached only
\* with a key and a user, generateContent only with a valid query; an
\* external call raises at most once, and the store is asked at most once
ReadsBody(auth)        == GEMINI_API_KEY /\ auth.kind = "user"
CallsModel(auth, body) ==
  ReadsBody(auth) /\ body.kind = "object" /\ ~InvalidQuery(body.query)
Raises(auth, body, gen) ==
  \/ GEMINI_API_KEY /\ auth.kind = "throws"
  \/ ReadsBody(auth) /\ body.kind = "unparseable"
  \/ CallsModel(auth, body) /\ gen.kind \in {"throws", "textThrows"}
AsksStore(auth, body, gen) ==
  \/ ReadsBody(auth) /\ body.kind = "null"
  \/ Raises(auth, body, gen)
  \/ CallsModel(auth, body) /\ gen.kind = "response" /\ gen.text # << >>

\* one invocation of POST on a request drawn from bodies, with the model
\* answering from gens
Chat(bodies, gens) ==
  /\ posts < MaxPosts
  /\ \E auth \in AuthOutcomes :
       \E body \in (IF ReadsBody(auth) THEN bodies ELSE {Unread}) :
         \E gen \in (IF CallsModel(auth, body) THEN gens ELSE {NotCalled}) :
           \E exc \in (IF Raises(auth, body, gen) THEN Exceptions ELSE {NoException}),
              dbOk \in (IF AsksStore(auth, body, gen) THEN BOOLEAN ELSE {TRUE}) :
             LET r == POST(auth, body, gen, exc, dbOk)
             IN  /\ inv' = r.frame
                 /\ chat_messages' = r.table
  /\ posts' = posts + 1
  /\ UNCHANGED <<GEMINI_API_KEY, clock>>
  /\ UNCHANGED browserVars

\* what handleSubmitQuery of the chatbot page sends:
\* JSON.stringify({ query: userInput.trim(), pdfText: uploadedPdfText }),
\* a trimmed non-empty query and the uploaded text (any string) or null
PageBodies ==
  {[kind |-> "object", query |-> Str(<<"a">>), pdfText |-> p] :
     p \in {Null, Str(<< >>), Str(<<" ">>), Str(<<"a">>)}}

\* the model fails, or answers with a normal stop and no prompt feedback
PlainResults ==
  {g \in GenResults :
     \/ g.kind = "throws"
     \/ g.kind = "response" /\ g.blockReason = "none" /\ g.finishReason = "STOP"}

\* a chat turn of the page
ChatPOST == Chat(PageBodies, PlainResults)

\* the handler on an arbitrary request, as the first request served
AnyPOST == posts = 0 /\ Chat(Bodies, GenResults)

\* document texts around MAX_PDF_TEXT_LENGTH, one character short of it up
\* to MaxExcess over it, with every choice of the characters at the cut
Repeat(c, n) == [i \in 1 .. n |-> c]

Documents ==
  {Repeat("a", MAX_PDF_TEXT_LENGTH - 1) \o tail : tail \in StringsUpTo(MaxExcess + 1)}

DocumentBodies ==
  {[kind |-> "object", query |-> Str(<<"a">>), pdfText |-> Str(d)] : d \in Documents}

\* a text as its runs of equal fragments, and back: a frame that holds a
\* long document and its prompt is kept in this form
Runs(text) ==
  LET RunsFrom(starts) ==
        LET start(j) == CHOOSE b \in starts : Cardinality({x \in starts : x < b}) = j - 1
            end(j) == IF j = Cardinality(starts) THEN Len(text) + 1 ELSE start(j + 1)
        IN  [j \in 1 .. Cardinality(starts) |->
               [c |-> text[start(j)], n |-> end(j) - start(j)]]
  IN  CHOOSE runs \in {RunsFrom(starts) :
                         starts \in {{i \in 1 .. Len(text) :
                                        i = 1 \/ text[i] # text[i - 1]}}} : TRUE

RECURSIVE Expand(_)
Expand(runs) ==
  IF runs = << >> THEN << >>
  ELSE [i \in 1 .. Head(runs).n |-> Head(runs).c] \o Expand(Tail(runs))

Packed(f) ==
  [f EXCEPT !.body.pdfText.v = Runs(@),
            !.prompts = [i \in 1 .. Len(@) |-> Runs(@[i])]]

\* a chat turn about a long document, as the first request served; the
\* handler works on the text itself, the frame is kept packed
DocumentPOST ==
  /\ posts = 0
  /\ \E auth \in AuthOutcomes :
       \E body \in (IF ReadsBody(auth) THEN DocumentBodies ELSE {Unread}) :
         \E gen \in (IF CallsModel(auth, body) THEN PlainResults ELSE {NotCalled}) :
           \E exc \in (IF Raises(auth, body, gen) THEN Exceptions ELSE {NoException}),
              dbOk \in (IF AsksStore(auth, body, gen) THEN BOOLEAN ELSE {TRUE}) :
             \E r \in {POST(auth, body, gen, exc, dbOk)} :
               /\ inv' = Packed(r.frame)
               /\ chat_messages' = r.table
  /\ posts' = posts + 1
  /\ UNCHANGED <<GEMINI_API_KEY, clock>>
  /\ UNCHANGED browserVars

\* ----------------------------------------------------- upload-pdf POST
\* formData.get('pdf'): null without the field, a string for a text field,
\* a File with its content type for a file field
NoField         == [t |-> "null", v |-> << >>, type |-> "undefined"]
TextField(s)    == [t |-> "string", v |-> s, type |-> "undefined"]
FileField(type) == [t |-> "file", v |-> << >>, type |-> type]
FormValues ==
  {NoField} \cup {TextField(s) : s \in StringsUpTo(MaxLen)}
            \cup {FileField(type) : type \in {"application/pdf", "text/plain", ""}}
Forms == {[kind |-> "throws", file |-> NoField]}
           \cup {[kind |-> "form", file |-> v] : v \in FormValues}

\* file.arrayBuffer() resolves or rejects
BufferOutcomes == {"bytes", "throws"}

\* pdf(fileBuffer) resolves with the text of the document or rejects
NotExtracted == [kind |-> "notcalled", text |-> << >>]
Extractions  == {[kind |-> "throws", text |-> << >>]}
                  \cup {[kind |-> "text", text |-> s] : s \in StringsUpTo(MaxLen)}

\* messages of what the upload handler may catch
UploadExceptions ==
  {Thrown(m) : m \in {<< >>, <<"Invalid PDF", " structure">>, <<"E_INTERNAL_DETAIL">>}}

\* String.prototype.includes on a text of fragments
Includes(text, fragment) == \E i \in 1 .. Len(text) : text[i] = fragment

\* the 'Invalid PDF' test left out: every failure is a 500
UploadCatch_NeverInvalid(f, error) ==
  Return([f EXCEPT !.thrown = error], chat_messages, 500,
         ErrorBody(<<"Failed to parse PDF. ">> \o error.message))

\* catch (error) { ... } of the upload handler
UploadCatch(f, error) ==
  IF Includes(error.message, "Invalid PDF")
  THEN Return([f EXCEPT !.thrown = error], chat_messages, 400,
              ErrorBody(<<"Invalid or corrupted PDF file.">>))
  ELSE Return([f EXCEPT !.thrown = error], chat_messages, 500,
              ErrorBody(<<"Failed to parse PDF. ">> \o error.message))

\* export async function POST(request) of upload-pdf/route.ts
UploadPOST(form, buffer, extracted, exc) ==
  LET f == [Frame("UPLOAD", NotAsked) EXCEPT !.form = form] IN
  IF form.kind = "throws" THEN UploadCatch(f, exc)
  ELSE IF ~Truthy(form.file)
  THEN Return(f, chat_messages, 400, ErrorBody(<<"No PDF file provided.">>))
  ELSE IF form.file.type # "application/pdf"
  THEN Return(f, chat_messages, 400,
              ErrorBody(<<"Invalid file type. Only PDF is allowed.">>))
  ELSE IF buffer = "throws" THEN UploadCatch(f, exc)
  ELSE LET g == [f EXCEPT !.extractions = Append(@, extracted)]
       IN  IF extracted.kind = "throws" THEN UploadCatch(g, exc)
           ELSE Return(g, chat_messages, 200, TextBody(extracted.text))

\* the calls an upload makes: the bytes are read only of a PDF file, and
\* the extractor runs only on bytes that were read
ReadsBytes(form) ==
  form.kind = "form" /\ Truthy(form.file) /\ form.file.type = "application/pdf"

\* the upload handler on an arbitrary request
AnyUpload ==
  /\ \E form \in Forms :
       \E buffer \in (IF ReadsBytes(form) THEN BufferOutcomes ELSE {"bytes"}) :
         \E extracted \in (IF ReadsBytes(form) /\ buffer = "bytes"
                            THEN Extractions ELSE {NotExtracted}) :
           \E exc \in (IF \/ form.kind = "throws"
                          \/ buffer = "throws"
                          \/ extracted.kind = "throws"
                       THEN UploadExceptions ELSE {NoException}) :
             inv' = UploadPOST(form, buffer, extracted, exc).frame
  /\ UNCHANGED <<GEMINI_API_KEY, chat_messages, clock, posts>>
  /\ UNCHANGED browserVars

\* ------------------------------------------------------ chat-history GET
\* the pair in the wrong order: bot message first
HistoryPair_BotFirst(msg) ==
  << [id             |-> <<msg.id, "-bot">>,
      text           |-> msg.bot_response,
      sender         |-> "bot",
      pdfContextUsed |-> Bool(msg.pdf_context_used),
      timestamp      |-> msg.created_at],
     [id             |-> <<msg.id, "-user">>,
      text           |-> msg.user_query,
      sender         |-> "user",
      pdfContextUsed |-> Undefined,
      timestamp      |-> msg.created_at] >>

\* one row becomes the pair [user message, bot message]
HistoryPair(msg) ==
  << [id             |-> <<msg.id, "-user">>,
      text           |-> msg.user_query,
      sender         |-> "user",
      pdfContextUsed |-> Undefined,
      timestamp      |-> msg.created_at],
     [id             |-> <<msg.id, "-bot">>,
      text           |-> msg.bot_response,
      sender         |-> "bot",
      pdfContextUsed |-> Bool(msg.pdf_context_used),
      timestamp      |-> msg.created_at] >>

\* Array.prototype.flat
RECURSIVE Flat(_)
Flat(ss) == IF ss = << >> THEN << >> ELSE Head(ss) \o Flat(Tail(ss))

\* chatMessages.map(...).flat()
History(chatMessages) ==
  Flat([i \in 1 .. Len(chatMessages) |-> HistoryPair(chatMessages[i])])

\* the .eq filter left out: every row of the table
OwnRows_AnyOwner(uid) == chat_messages

\* .eq('user_id', user.id)
OwnRows(uid) == SelectSeq(chat_messages, LAMBDA r : r.user_id = uid)

\* the .order clause left out: the rows of the caller in any order
Selections_Unordered(uid) ==
  LET own == OwnRows(uid)
      n   == Len(own)
      bij == {p \in [1 .. n -> 1 .. n] : \A i, j \in 1 .. n : p[i] = p[j] => i = j}
  IN  {[i \in 1 .. n |-> own[p[i]]] : p \in bij}

\* .order('created_at', { ascending: true }): the store fixes no order among
\* rows of equal created_at
Selections(uid) ==
  LET own == OwnRows(uid)
      n   == Len(own)
      bij == {p \in [1 .. n -> 1 .. n] : \A i, j \in 1 .. n : p[i] = p[j] => i = j}
  IN  {[i \in 1 .. n |-> own[p[i]]] : p \in
         {q \in bij : \A i, j \in 1 .. n :
            i < j => own[q[i]].created_at <= own[q[j]].created_at}}

\* export async function GET(request)
GET(auth, sel, rows, exc) ==
  LET f == Frame("GET", auth) IN
  IF auth.kind = "throws"
  THEN Return([f EXCEPT !.thrown = exc], chat_messages, 500,
              ErrorBody(<<"An unexpected error occurred. ">> \o exc.message))
  ELSE IF auth.kind # "user"
  THEN Return(f, chat_messages, 401,
              ErrorBody(<<"Unauthorized: You must be logged in to view chat history.">>))
  ELSE IF sel.kind = "error"
  THEN Return([f EXCEPT !.selected = sel], chat_messages, 500,
              ErrorBody(<<"Failed to fetch chat history. ">> \o sel.message))
  ELSE Return([f EXCEPT !.selected = sel, !.rows = rows], chat_messages, 200,
              HistoryBody(History(rows)))

HistoryGET ==
  /\ \E auth \in AuthOutcomes, sel \in SelectOutcomes :
       \E exc \in (IF auth.kind = "throws" THEN Exceptions ELSE {NoException}) :
       \E rows \in (IF auth.kind = "user" /\ sel.kind = "rows" THEN Selections(auth.id)
                    ELSE {<< >>}) :
         inv' = GET(auth, sel, rows, exc).frame
  /\ UNCHANGED <<GEMINI_API_KEY, chat_messages, clock, posts>>
  /\ UNCHANGED browserVars

\* ---------------------------------------------------------------- store
\* time passes between two statements of the store
Tick ==
  /\ clock < MaxClock
  /\ clock' = clock + 1
  /\ UNCHANGED <<GEMINI_API_KEY, chat_messages, posts, inv>>
  /\ UNCHANGED browserVars

\* --------------------------------------------------------- chatbot page
\* the page of one signed-in principal; the table also receives the chat
\* turns of that principal's other sessions and of other principals
PageUser == [kind |-> "user", id |-> "u1"]

\* what getUser() answers for the cookies the page sends
PageAuthOutcomes ==
  {PageUser, [kind |-> "none", id |-> "null"], [kind |-> "throws", id |-> "null"]}

\* addSystemMessage(text, isError, uniqueIdSuffix): id `sys-${suffix}` and
\* the browser's time as timestamp
SystemMessage(text, uniqueIdSuffix) ==
  [id             |-> <<"sys-", uniqueIdSuffix>>,
   text           |-> text,
   sender         |-> "system",
   pdfContextUsed |-> Undefined,
   timestamp      |-> dateNow]

\* Array.prototype.sort with (a, b) => time(a) - time(b); the sort is stable
RECURSIVE SortByTimestamp(_)
SortByTimestamp(s) ==
  IF Len(s) <= 1 THEN s
  ELSE LET front == SortByTimestamp(SubSeq(s, 1, Len(s) - 1))
           last  == s[Len(s)]
           k     == Cardinality({i \in 1 .. Len(front) :
                                   front[i].timestamp <= last.timestamp})
       IN  SubSeq(front, 1, k) \o <<last>> \o SubSeq(front, k + 1, Len(front))

\* the updater passed to setMessages in fetchChatHistory
MergeHistory(prevMessages, historyMessages) ==
  LET existingMessageIds == {prevMessages[i].id : i \in 1 .. Len(prevMessages)}
      uniqueHistoryMessages ==
        SelectSeq(historyMessages, LAMBDA histMsg : histMsg.id \notin existingMessageIds)
  IN  SortByTimestamp(uniqueHistoryMessages \o prevMessages)

\* const isBusy = isProcessingQuery || isUploadingPdf || isLoadingHistory
isBusy == isProcessingQuery \/ isUploadingPdf \/ isLoadingHistory

\* the early return of fetchChatHistory
AlreadyLoaded ==
  /\ historyLoaded
  /\ \E i \in 1 .. Len(messages) :
       messages[i].id \in {<<"sys-", "hist-loaded">>, <<"sys-", "no-hist">>}

\* fetchChatHistory up to the fetch of /api/chat-history
StartFetch ==
  /\ fetches < MaxFetches
  /\ ~AlreadyLoaded
  /\ isLoadingHistory' = TRUE
  /\ loads' = loads + 1
  /\ fetches' = fetches + 1
  /\ UNCHANGED <<messages, historyLoaded, dateNow>>
  /\ UNCHANGED <<GEMINI_API_KEY, chat_messages, clock, posts, inv>>
  /\ UNCHANGED <<formVars, authVars, nav>>

\* the auto-load effect: it runs when the page mounts and again whenever the
\* AuthProvider sets a user object (getSession, every auth state change)
AutoLoadHistory == ~historyLoaded /\ StartFetch

\* the "Load Chat History" button, disabled while the page is busy
ClickLoadHistory == ~isBusy /\ StartFetch

\* fetchChatHistory from the response on: the server handles the request,
\* then the page merges the history or reports the failure
HistoryArrives ==
  /\ loads > 0
  /\ \E auth \in PageAuthOutcomes, sel \in SelectOutcomes :
       \E exc \in (IF auth.kind = "throws" THEN Exceptions ELSE {NoException}) :
       \E rows \in (IF auth.kind = "user" /\ sel.kind = "rows" THEN Selections(auth.id)
                    ELSE {<< >>}) :
         LET response == GET(auth, sel, rows, exc).frame
             historyMessages == response.resBody.messages
         IN  /\ inv' = response
             /\ IF response.status = 200
                THEN /\ messages' =
                          Append(MergeHistory(messages, historyMessages),
                                 IF historyMessages = << >>
                                 THEN SystemMessage(<<"No previous chat history found.">>,
                                                    "no-hist")
                                 ELSE SystemMessage(<<"Chat history loaded.">>,
                                                    "hist-loaded"))
                     /\ historyLoaded' = TRUE
                ELSE /\ messages' =
                          Append(messages,
                                 SystemMessage(<<"Error loading history: ">>
                                                 \o response.resBody.text, "hist-err"))
                     /\ historyLoaded' = FALSE
  /\ isLoadingHistory' = FALSE
  /\ loads' = loads - 1
  /\ UNCHANGED <<fetches, dateNow>>
  /\ UNCHANGED <<GEMINI_API_KEY, chat_messages, clock, posts>>
  /\ UNCHANGED <<formVars, authVars, nav>>

\* time passes in the browser
ClientTick ==
  /\ dateNow < MaxNow
  /\ dateNow' = dateNow + 1
  /\ UNCHANGED <<messages, historyLoaded, isLoadingHistory, loads, fetches>>
  /\ UNCHANGED <<GEMINI_API_KEY, chat_messages, clock, posts, inv>>
  /\ UNCHANGED <<formVars, authVars, nav>>

\* ----------------------------------------------- chatbot page: the forms
NoChatFetch   == [state |-> "none", query |-> << >>, pdfText |-> Null]
NoUploadFetch == [state |-> "none", name |-> << >>]

\* event.target.files?.[0] of the file input
PickedFiles ==
  {[name |-> <<"doc.pdf">>, type |-> "application/pdf"],
   [name |-> <<"notes.txt">>, type |-> "text/plain"]}

\* the page can take one more operation that appends to the display
RoomOnDisplay == Len(messages) < MaxMessages

\* handlePdfUpload up to the fetch of /api/upload-pdf; the file input is
\* disabled while the page is busy
handlePdfUpload ==
  /\ ~isBusy
  /\ RoomOnDisplay
  /\ \E file \in PickedFiles :
       IF file.type # "application/pdf"
       THEN /\ pageError' = Str(<<"Invalid file type. Please upload a PDF.">>)
            /\ UNCHANGED <<pdfName, isUploadingPdf, uploadFetch>>
       ELSE /\ pageError' = Null
            /\ isUploadingPdf' = TRUE
            /\ pdfName' = Str(file.name)
            /\ uploadFetch' = [state |-> "sent", name |-> file.name]
  /\ UNCHANGED <<uploadedPdfText, isProcessingQuery, chatFetch>>
  /\ UNCHANGED <<serverVars, pageVars, authVars, nav>>

\* data.error || `HTTP error! status: ${response.status}`
ErrorOf(response) ==
  IF response.resBody.text # << >> THEN response.resBody.text
  ELSE <<"HTTP error! status: ", ToString(response.status)>>

\* handlePdfUpload from the response on: the server handles the upload,
\* then the page keeps the extracted text or drops the document
UploadResponds ==
  /\ uploadFetch.state = "sent"
  /\ \E buffer \in BufferOutcomes :
       \E extracted \in (IF buffer = "bytes" THEN Extractions ELSE {NotExtracted}) :
         \E exc \in (IF buffer = "throws" \/ extracted.kind = "throws"
                     THEN UploadExceptions ELSE {NoException}) :
           LET form == [kind |-> "form", file |-> FileField("application/pdf")]
               response == UploadPOST(form, buffer, extracted, exc).frame
           IN  /\ inv' = response
               /\ IF response.status = 200
                  THEN /\ uploadedPdfText' = Str(response.resBody.text)
                       /\ messages' =
                            Append(messages,
                                   SystemMessage(<<"PDF: ">> \o uploadFetch.name
                                                   \o <<" uploaded successfully.">>,
                                                 ToString(dateNow)))
                       /\ UNCHANGED pdfName
                  ELSE /\ messages' =
                            Append(messages,
                                   SystemMessage(<<"Failed to process PDF \"">>
                                                   \o uploadFetch.name \o <<"\": ">>
                                                   \o ErrorOf(response),
                                                 ToString(dateNow)))
                       /\ pdfName' = Null
                       /\ uploadedPdfText' = Null
  /\ isUploadingPdf' = FALSE
  /\ uploadFetch' = NoUploadFetch
  /\ UNCHANGED <<isProcessingQuery, pageError, chatFetch>>
  /\ UNCHANGED <<historyLoaded, isLoadingHistory, loads, fetches, dateNow>>
  /\ UNCHANGED <<GEMINI_API_KEY, chat_messages, clock, posts>>
  /\ UNCHANGED <<authVars, nav>>

\* clearPdfContext; its button shows while a PDF name is set and no page
\* error is displayed
clearPdfContext ==
  /\ Truthy(pdfName) /\ ~Truthy(pageError)
  /\ RoomOnDisplay
  /\ uploadedPdfText' = Null
  /\ pdfName' = Null
  /\ messages' =
       Append(messages,
              SystemMessage(<<"PDF context for ">> \o pdfName.v \o <<" has been cleared.">>,
                            ToString(dateNow)))
  /\ UNCHANGED <<isProcessingQuery, isUploadingPdf, pageError, chatFetch, uploadFetch>>
  /\ UNCHANGED <<historyLoaded, isLoadingHistory, loads, fetches, dateNow>>
  /\ UNCHANGED <<serverVars, authVars, nav>>

\* the "Dismiss Error" button of the page error bar
DismissError ==
  /\ Truthy(pageError)
  /\ pageError' = Null
  /\ UNCHANGED <<uploadedPdfText, pdfName, isProcessingQuery, isUploadingPdf,
                 chatFetch, uploadFetch>>
  /\ UNCHANGED <<serverVars, pageVars, authVars, nav>>

\* what the user types, trimmed: a different text in every turn, so that
\* the text tells the turns of a session apart
Queries == {<<"q", ToString(k)>> : k \in 1 .. MaxPosts}

FreshQueries ==
  {q \in Queries : \A i \in 1 .. Len(messages) :
                     messages[i].sender = "user" => messages[i].text # q}

\* handleSubmitQuery up to the fetch of /api/chat, on a trimmed non-empty
\* input; the closure keeps uploadedPdfText as it was at the submit
handleSubmitQuery ==
  /\ ~isBusy
  /\ posts < MaxPosts
  /\ RoomOnDisplay
  /\ \E userQuery \in FreshQueries :
         /\ messages' = Append(messages,
                               [id             |-> <<"user-", ToString(dateNow)>>,
                                text           |-> userQuery,
                                sender         |-> "user",
                                pdfContextUsed |-> Undefined,
                                timestamp      |-> dateNow])
         /\ chatFetch' = [state |-> "sent", query |-> userQuery,
                          pdfText |-> uploadedPdfText]
  /\ isProcessingQuery' = TRUE
  /\ pageError' = Null
  /\ UNCHANGED <<uploadedPdfText, pdfName, isUploadingPdf, uploadFetch>>
  /\ UNCHANGED <<historyLoaded, isLoadingHistory, loads, fetches, dateNow>>
  /\ UNCHANGED <<serverVars, authVars, nav>>

\* the catch block writes no message
AfterChat_SilentCatch(response) ==
  IF response.status = 200
  THEN Append(messages,
              [id             |-> <<"bot-", ToString(dateNow)>>,
               text           |-> response.resBody.text,
               sender         |-> "bot",
               pdfContextUsed |-> Bool(Truthy(chatFetch.pdfText)),
               timestamp      |-> dateNow])
  ELSE messages

\* the try and catch blocks of handleSubmitQuery after the response: a bot
\* message with !!uploadedPdfText of the closure as its flag, or the error
\* of the response as a system message
AfterChat(response) ==
  IF response.status = 200
  THEN Append(messages,
              [id             |-> <<"bot-", ToString(dateNow)>>,
               text           |-> response.resBody.text,
               sender         |-> "bot",
               pdfContextUsed |-> Bool(Truthy(chatFetch.pdfText)),
               timestamp      |-> dateNow])
  ELSE Append(messages,
              SystemMessage(<<"Chat Error: ">> \o ErrorOf(response), ToString(dateNow)))

\* handleSubmitQuery from the response on: the server handles the request
\* of the page's user, then the page shows the reply or the error
ChatResponds ==
  /\ chatFetch.state = "sent"
  /\ \E auth \in PageAuthOutcomes :
       LET body == [kind |-> "object", query |-> Str(chatFetch.query),
                    pdfText |-> chatFetch.pdfText]
       IN  \E gen \in (IF CallsModel(auth, body) THEN PlainResults ELSE {NotCalled}) :
             \E exc \in (IF Raises(auth, body, gen) THEN Exceptions ELSE {NoException}),
                dbOk \in (IF AsksStore(auth, body, gen) THEN BOOLEAN ELSE {TRUE}) :
               \E r \in {POST(auth, IF ReadsBody(auth) THEN body ELSE Unread,
                               gen, exc, dbOk)} :
                 /\ inv' = r.frame
                 /\ chat_messages' = r.table
                 /\ messages' = AfterChat(r.frame)
  /\ posts' = posts + 1
  /\ isProcessingQuery' = FALSE
  /\ chatFetch' = NoChatFetch
  /\ UNCHANGED <<uploadedPdfText, pdfName, isUploadingPdf, pageError, uploadFetch>>
  /\ UNCHANGED <<historyLoaded, isLoadingHistory, loads, fetches, dateNow>>
  /\ UNCHANGED <<GEMINI_API_KEY, clock>>
  /\ UNCHANGED <<authVars, nav>>

\* handleSubmitQuery when fetch rejects: the request never reached the
\* handler, and the catch block reports the error
ChatFetchFails ==
  /\ chatFetch.state = "sent"
  /\ messages' = Append(messages,
                        SystemMessage(<<"Chat Error: ", "Failed to fetch">>,
                                      ToString(dateNow)))
  /\ isProcessingQuery' = FALSE
  /\ chatFetch' = NoChatFetch
  /\ UNCHANGED <<uploadedPdfText, pdfName, isUploadingPdf, pageError, uploadFetch>>
  /\ UNCHANGED <<historyLoaded, isLoadingHistory, loads, fetches, dateNow>>
  /\ UNCHANGED <<serverVars, authVars, nav>>

\* --------------------------------------------------------- AuthProvider
\* a session of the auth client: its user and its access token
Session(p, token) == [t |-> "session", v |-> <<p, ToString(token)>>]

\* currentSession?.user ?? null
SessionUser(currentSession) ==
  IF Truthy(currentSession) THEN [t |-> "user", v |-> <<currentSession.v[1]>>]
  ELSE Null

\* supabase.auth.getSession() answers with the session the auth client
\* holds when the call is served; the promise resolves later
GetSessionReads ==
  /\ getSession.state = "called"
  /\ getSession' = [state |-> "read", currentSession |-> authSession]
  /\ UNCHANGED <<session, authUser, isLoading, authSession, authEvents>>
  /\ UNCHANGED <<serverVars, pageVars, formVars, nav>>

\* the continuation of getSession() in the effect
GetSessionResolves ==
  /\ getSession.state = "read"
  /\ session' = getSession.currentSession
  /\ authUser' = SessionUser(getSession.currentSession)
  /\ isLoading' = FALSE
  /\ getSession' = [getSession EXCEPT !.state = "resolved"]
  /\ UNCHANGED <<authSession, authEvents>>
  /\ UNCHANGED <<serverVars, pageVars, formVars, nav>>

\* the listener passed to onAuthStateChange, called with the session the
\* auth client has just taken
AuthStateChange(currentAuthSession) ==
  /\ authSession' = currentAuthSession
  /\ session' = currentAuthSession
  /\ authUser' = SessionUser(currentAuthSession)
  /\ isLoading' = FALSE

\* an auth event: the initial session, a sign-in or a refreshed token, a
\* sign-out
AuthEvent ==
  /\ authEvents < MaxAuthEvents
  /\ \E currentAuthSession \in
         {authSession, Null} \cup {Session(p, authEvents + 1) : p \in Principals} :
       AuthStateChange(currentAuthSession)
  /\ authEvents' = authEvents + 1
  /\ UNCHANGED getSession
  /\ UNCHANGED <<serverVars, pageVars, formVars, nav>>

\* ------------------------------------------------------------ middleware
\* String.prototype.startsWith on texts of fragments
StartsWith_WholePath(text, prefix) == text = prefix

StartsWith(text, prefix) ==
  Len(text) >= Len(prefix) /\ SubSeq(text, 1, Len(prefix)) = prefix

protectedRoutes == {<<"/chatbot">>}
authRoutes      == {<<"/login">>, <<"/register">>}

\* what follows the first segment of a pathname: further segments ("/x")
\* and characters that lengthen the last segment ("x")
RECURSIVE PathTails(_)
PathTails(n) ==
  IF n = 0 THEN {<< >>}
  ELSE LET S == PathTails(n - 1)
       IN  S \cup {Append(t, c) : t \in {u \in S : Len(u) = n - 1}, c \in {"/x", "x"}}

\* request.nextUrl.pathname of the requests the matcher lets through
Pathnames ==
  {<<"/">>} \cup
  {<<head>> \o tail : head \in {"/chatbot", "/login", "/register", "/api", "/x"},
                      tail \in PathTails(MaxSegments)}

\* the session supabase.auth.getSession() reads from the request's cookies
CookieSessions == {Null} \cup {Session(p, 0) : p \in Principals}

PassThrough   == [kind |-> "next", location |-> << >>]
Redirect(url) == [kind |-> "redirect", location |-> url]

\* the protected check without the session test
middleware_ProtectsAlways(cookieSession, pathname) ==
  LET isProtectedRoute == \E route \in protectedRoutes : StartsWith(pathname, route)
      isAuthRoute      == \E route \in authRoutes : StartsWith(pathname, route)
  IN  IF isProtectedRoute THEN Redirect(<<"/login">>)
      ELSE IF isAuthRoute /\ Truthy(cookieSession) THEN Redirect(<<"/chatbot">>)
      ELSE PassThrough

\* export async function middleware(request)
middleware(cookieSession, pathname) ==
  LET isProtectedRoute == \E route \in protectedRoutes : StartsWith(pathname, route)
      isAuthRoute      == \E route \in authRoutes : StartsWith(pathname, route)
  IN  IF isProtectedRoute /\ ~Truthy(cookieSession) THEN Redirect(<<"/login">>)
      ELSE IF isAuthRoute /\ Truthy(cookieSession) THEN Redirect(<<"/chatbot">>)
      ELSE PassThrough

NoNavigation ==
  [pathname |-> << >>, session |-> Null, response |-> PassThrough, redirects |-> 0]

\* the browser requests a page and the middleware answers
Navigate ==
  /\ \E pathname \in Pathnames, cookieSession \in CookieSessions :
       nav' = [pathname  |-> pathname,
               session   |-> cookieSession,
               response  |-> middleware(cookieSession, pathname),
               redirects |-> 0]
  /\ UNCHANGED <<serverVars, pageVars, formVars, authVars>>

\* the browser follows a redirect with the same cookies
FollowRedirect ==
  /\ nav.response.kind = "redirect"
  /\ nav.redirects < MaxRedirects
  /\ nav' = [pathname  |-> nav.response.location,
             session   |-> nav.session,
             response  |-> middleware(nav.session, nav.response.location),
             redirects |-> nav.redirects + 1]
  /\ UNCHANGED <<serverVars, pageVars, formVars, authVars>>

\* ---------------------------------------------------------- specification
Init ==
  /\ GEMINI_API_KEY \in BOOLEAN
  /\ chat_messages = << >>
  /\ clock = 0
  /\ posts = 0
  /\ inv = Frame("none", NotAsked)
  /\ messages = << >>
  /\ historyLoaded = FALSE
  /\ isLoadingHistory = FALSE
  /\ loads = 0
  /\ fetches = 0
  /\ dateNow = 0
  /\ uploadedPdfText = Null
  /\ pdfName = Null
  /\ isProcessingQuery = FALSE
  /\ isUploadingPdf = FALSE
  /\ pageError = Null
  /\ chatFetch = NoChatFetch
  /\ uploadFetch = NoUploadFetch
  /\ authSession = Null
  /\ session = Null
  /\ authUser = Null
  /\ isLoading = TRUE
  /\ getSession = [state |-> "called", currentSession |-> Null]
  /\ authEvents = 0
  /\ nav = NoNavigation

Next == ChatPOST \/ HistoryGET \/ Tick

Spec == Init /\ [][Next]_vars

\* the handlers on arbitrary requests: one chat request with every request
\* body and every answer of the model, history requests and uploads
NextHandlers == AnyPOST \/ HistoryGET \/ AnyUpload

SpecHandlers == Init /\ [][NextHandlers]_vars

\* the two handlers on one chat request that carries a long document
NextDocuments == DocumentPOST \/ HistoryGET

SpecDocuments == Init /\ [][NextDocuments]_vars

\* the chatbot page loading history while chat turns reach the server
NextPage ==
  \/ ChatPOST \/ Tick
  \/ AutoLoadHistory \/ ClickLoadHistory \/ HistoryArrives \/ ClientTick

SpecPage == Init /\ [][NextPage]_vars

\* one session of the chatbot page: uploads, context clears and queries
NextForms ==
  \/ handlePdfUpload \/ UploadResponds \/ clearPdfContext \/ DismissError
  \/ handleSubmitQuery \/ ChatResponds \/ ChatFetchFails
  \/ ClientTick

\* uploads and queries of one session together with its history loads
NextSession ==
  \/ handlePdfUpload \/ UploadResponds
  \/ handleSubmitQuery \/ ChatResponds
  \/ AutoLoadHistory \/ ClickLoadHistory \/ HistoryArrives

SpecSession == Init /\ [][NextSession]_vars

SpecForms == Init /\ [][NextForms]_vars

\* the queries of one session with a document uploaded before them; every
\* chat request the page sends is answered or fails
NextQueries ==
  \/ handlePdfUpload \/ UploadResponds
  \/ handleSubmitQuery \/ ChatResponds \/ ChatFetchFails

SpecQueries ==
  /\ Init /\ [][NextQueries]_vars
  /\ WF_vars(ChatResponds \/ ChatFetchFails)

\* the AuthProvider from its mount on
NextAuth == GetSessionReads \/ GetSessionResolves \/ AuthEvent

SpecAuth == Init /\ [][NextAuth]_vars

\* navigations through the middleware; the browser follows every redirect
NextMiddleware == Navigate \/ FollowRedirect

SpecMiddleware == Init /\ [][NextMiddleware]_vars /\ WF_vars(FollowRedirect)

\* ================================================================ claims
Returned(h) == inv.handler = h
NoModelCall == inv.prompts = << >>
NoInsert    == inv.inserts = << >>

\* document text was supplied: a string that is non-empty after trimming
DocumentSupplied(pdfText) == pdfText.t = "string" /\ Trim(pdfText.v) # << >>

\* the generated text reached the success path
Succeeded == Returned("POST") /\ inv.status = 200

\* ------------------------------------------------------------------- C1
\* C1 as stated: a request whose caller has no identity is answered 401 by
\* the chat POST handler and by the chat-history GET handler, whatever the
\* body and the server configuration, with no model call and no insert.
C1_AlwaysUnauthorized ==
  (Returned("POST") \/ Returned("GET")) /\ inv.caller.kind = "none"
    => inv.status = 401 /\ NoModelCall /\ NoInsert

\* C1 amended: without a user the chat-history handler answers 401, and the
\* chat handler answers 401 when the Gemini API key is configured and 500
\* (configuration error, before the caller is looked at) when it is not; in
\* every case, also when the identity lookup itself fails, the invocation
\* makes no model call and attempts no insert.
C1_UnauthorizedWhenConfigured ==
  /\ (Returned("POST") \/ Returned("GET")) /\ inv.caller.kind = "none"
       => inv.status = (IF Returned("POST") /\ ~GEMINI_API_KEY THEN 500 ELSE 401)
  /\ (Returned("POST") \/ Returned("GET")) /\ inv.caller.kind \in {"none", "throws"}
       => NoModelCall /\ NoInsert /\ inv.status \in {401, 500}

C1_Witness ==
  /\ Returned("POST") /\ GEMINI_API_KEY
  /\ inv.caller.kind = "none" /\ inv.status = 401

\* ------------------------------------------------------------------- C2
\* C2: an authenticated chat request whose query is missing, not a string or
\* empty after trimming is answered 400, with no model call and no record
\* written.  A body that is the JSON value null carries no query.
QueryAbsentOrBlank(body) ==
  \/ body.kind = "null"
  \/ /\ body.kind = "object"
     /\ (body.query.t # "string" \/ Trim(body.query.v) = << >>)

C2_InvalidQueryRejected ==
  Returned("POST") /\ inv.caller.kind = "user" /\ QueryAbsentOrBlank(inv.body)
    => inv.status = 400 /\ NoModelCall /\ NoInsert

\* ------------------------------------------------------------------- C3
\* the record a successful turn is said to persist
TurnRecord(f, table, now) ==
  [id               |-> ToString(Len(table) + 1),
   created_at       |-> now,
   user_id          |-> f.caller.id,
   user_query       |-> f.body.query.v,
   bot_response     |-> f.result.text,
   pdf_context_used |-> DocumentSupplied(f.body.pdfText)]

\* C3 as stated: every chat turn answered 200 persists exactly one record,
\* with owner = caller, user_query = query, bot_response = the generated
\* text and pdf_context_used = whether document text was supplied.
C3_ExactlyOneRecord ==
  [][posts' = posts + 1 /\ inv'.status = 200
       => chat_messages' = Append(chat_messages, TurnRecord(inv', chat_messages, clock))]_vars

\* C3 amended: every chat turn answered 200 attempts exactly one insert, for
\* owner = caller, user_query = query and bot_response = the generated
\* text; when the store accepts it, exactly that one record is persisted,
\* with pdf_context_used = whether document text was supplied; when the
\* store refuses it, nothing is persisted and the turn is still answered 200.
C3_OneInsertAttempted ==
  [][posts' = posts + 1 /\ inv'.status = 200
       => /\ Len(inv'.inserts) = 1
          /\ inv'.inserts[1].payload.user_id = inv'.caller.id
          /\ inv'.inserts[1].payload.user_query = inv'.body.query
          /\ inv'.inserts[1].payload.bot_response = inv'.result.text
          /\ inv'.result.text # << >>
          /\ inv'.resBody = ReplyBody(inv'.result.text)
          /\ chat_messages' =
               IF inv'.inserts[1].ok
               THEN Append(chat_messages, TurnRecord(inv', chat_messages, clock))
               ELSE chat_messages]_vars

C3_Witness ==
  /\ Succeeded /\ inv.inserts[1].ok
  /\ DocumentSupplied(inv.body.pdfText)
  /\ chat_messages # << >>
  /\ chat_messages[Len(chat_messages)].pdf_context_used

\* ------------------------------------------------------------------- C4
\* C4: the pdf_context_used value written on the success path is a boolean
\* (never null, the empty string or another value), true exactly when
\* pdfText is a string that is non-empty after trimming, for every request
\* body.  (An undefined value is a key JSON.stringify leaves out, for which
\* the column default false is written: it is counted as the boolean false.)
C4_FlagIsBoolean ==
  Succeeded =>
    LET written == inv.inserts[1].payload.pdf_context_used
    IN  /\ written.t \in {"boolean", "undefined"}
        /\ Truthy(written) <=> DocumentSupplied(inv.body.pdfText)

\* ------------------------------------------------------------------- C5
\* C5: the response of the chat handler does not depend on the outcome of
\* the insert: on the success path it is 200 with the generated reply, on
\* the error path it is 500 with the error message, whether or not the
\* insert failed.
C5_ResponseIgnoresInsertOutcome ==
  Returned("POST") /\ ~NoInsert =>
    LET payload == inv.inserts[1].payload
    IN  IF payload.isError
        THEN /\ inv.status = 500
             /\ inv.resBody.kind = "error"
             /\ payload.bot_response = <<"SYSTEM ERROR: ">> \o inv.resBody.text
        ELSE /\ inv.status = 200
             /\ inv.resBody = ReplyBody(inv.result.text)

C5_Witness ==
  /\ Succeeded /\ ~inv.inserts[1].ok
  /\ inv.resBody = ReplyBody(inv.result.text)

\* ------------------------------------------------------------------- C6
\* the model answered with empty text
EmptyTextReturned ==
  Returned("POST") /\ inv.result.kind = "response" /\ inv.result.text = << >>

\* the first candidate names a reason: SAFETY, or any reason but STOP
CandidateReason == inv.result.finishReason \notin {"nocandidate", "none", "STOP"}

\* C6 as stated: empty text with a safety block reason on the prompt is
\* answered 400 with the query-was-blocked message, for every combination of
\* candidate finish reasons, and no success-path record is persisted.
C6_QueryBlockedMessage ==
  EmptyTextReturned /\ inv.result.blockReason = "SAFETY"
    => /\ inv.status = 400
       /\ inv.resBody = ErrorBody(QueryBlockedMessage)
       /\ NoInsert

\* C6 amended: empty text with a safety block reason on the prompt is
\* answered 400 and no record is persisted; the message is the
\* query-was-blocked one when the first candidate is absent or carries no
\* finish reason or STOP, the response-was-blocked one when its finish
\* reason is SAFETY, and the generation-incomplete one for any other reason.
C6_PromptSafetyBlock ==
  EmptyTextReturned /\ inv.result.blockReason = "SAFETY"
    => /\ inv.status = 400
       /\ NoInsert
       /\ inv.resBody.kind = "error"
       /\ inv.resBody.text =
            IF ~CandidateReason THEN QueryBlockedMessage
            ELSE IF inv.result.finishReason = "SAFETY" THEN ResponseBlockedMessage
            ELSE <<"Response generation incomplete. Reason: ", inv.result.finishReason,
                   ". Try a shorter query or PDF.">>

C6_Witness ==
  /\ EmptyTextReturned /\ inv.result.blockReason = "SAFETY"
  /\ inv.result.finishReason = "SAFETY"
  /\ inv.status = 400
  /\ inv.resBody.text = ResponseBlockedMessage

\* ------------------------------------------------------------------- C7
\* C7: with empty text the status is 400 exactly when a reason is identified
\* (a block reason on the prompt, SAFETY on the first candidate, or a finish
\* reason other than STOP) and 500 with the empty-response message exactly
\* when none is; with non-empty text the turn succeeds whatever the
\* feedback fields are.
ReasonIdentified == inv.result.blockReason # "none" \/ CandidateReason

C7_EmptyTextStatus ==
  /\ EmptyTextReturned =>
       /\ inv.status = (IF ReasonIdentified THEN 400 ELSE 500)
       /\ inv.resBody.kind = "error"
       /\ (inv.resBody.text = EmptyResponseMessage) <=> ~ReasonIdentified
  /\ Returned("POST") /\ inv.result.kind = "response" /\ inv.result.text # << >> =>
       /\ inv.status = 200
       /\ inv.resBody = ReplyBody(inv.result.text)

C7_Witness ==
  /\ EmptyTextReturned
  /\ inv.result.blockReason = "none" /\ inv.result.finishReason = "STOP"
  /\ inv.status = 500

\* ------------------------------------------------------------------- C8
\* C8: an unexpected failure after the caller identity was resolved attempts
\* exactly one insert, of an error-marked record (owner = caller,
\* bot_response = the system-error sentinel, pdf_context_used = false),
\* and answers with the failure; without a resolved identity no insert is
\* attempted.
C8_ErrorRecordAttempted ==
  Returned("POST") /\ inv.thrown.is =>
    IF inv.userIdForDb # "null"
    THEN /\ Len(inv.inserts) = 1
         /\ inv.inserts[1].payload.user_id = inv.caller.id
         /\ inv.inserts[1].payload.user_id = inv.userIdForDb
         /\ Head(inv.inserts[1].payload.bot_response) = "SYSTEM ERROR: "
         /\ inv.inserts[1].payload.pdf_context_used = Bool(FALSE)
         /\ inv.status = 500
    ELSE NoInsert /\ inv.status = 500

C8_Witness ==
  /\ Returned("POST") /\ inv.thrown.is
  /\ inv.result.kind = "textThrows"
  /\ inv.userIdForDb \in Principals
  /\ Len(inv.inserts) = 1

\* ------------------------------------------------------------------- C9
\* text of the underlying exception or storage error
DiagnosticFragments ==
  UNION {{m[i] : i \in 1 .. Len(m)} :
           m \in ExceptionMessages \cup {DestructureNull.message}}

Leaks(body) == \E i \in 1 .. Len(body.text) : body.text[i] \in DiagnosticFragments

\* an unexpected exception, or a failure of the store on the read path
InternalFailure ==
  \/ (Returned("POST") \/ Returned("GET")) /\ inv.thrown.is
  \/ Returned("GET") /\ inv.selected.kind = "error"

\* C9: an internal failure of the chat or chat-history handler is answered
\* 500 with a generic message; the body never contains the text of the
\* underlying exception or storage error.
C9_NoDiagnosticInBody ==
  InternalFailure => inv.status = 500 /\ ~Leaks(inv.resBody)

\* ------------------------------------------------------------------ C10
\* the rows are the caller's records, each once, in ascending created_at
RowsOfCaller(rows, uid) ==
  LET own == OwnRows(uid)
  IN  /\ Len(rows) = Len(own)
      /\ \A k \in 1 .. Len(own) : \E i \in 1 .. Len(rows) : rows[i] = own[k]
      /\ \A i \in 1 .. Len(rows) : rows[i].user_id = uid
      /\ \A i, j \in 1 .. Len(rows) : i < j => rows[i].created_at <= rows[j].created_at

\* C10: for a caller with N >= 0 stored records read in ascending created_at
\* order, the history handler answers 200 with exactly 2N messages, message
\* 2i being the user side (text = user_query) and message 2i+1 the bot side
\* (text = bot_response, flag = pdf_context_used) of record i, both with the
\* timestamp of record i; for N = 0 the answer is the empty array.
C10_HistoryPairs ==
  Returned("GET") /\ inv.caller.kind = "user" /\ inv.selected.kind = "rows" =>
    LET rows == inv.rows
        N    == Len(OwnRows(inv.caller.id))
        out  == inv.resBody.messages
    IN  /\ inv.status = 200
        /\ inv.resBody.kind = "history"
        /\ RowsOfCaller(rows, inv.caller.id)
        /\ Len(out) = 2 * N
        /\ N = 0 => out = << >>
        /\ \A i \in 1 .. N :
             /\ out[2 * i - 1].sender = "user"
             /\ out[2 * i - 1].text = rows[i].user_query
             /\ out[2 * i - 1].timestamp = rows[i].created_at
             /\ out[2 * i - 1].id = <<rows[i].id, "-user">>
             /\ out[2 * i].sender = "bot"
             /\ out[2 * i].text = rows[i].bot_response
             /\ out[2 * i].pdfContextUsed = Bool(rows[i].pdf_context_used)
             /\ out[2 * i].timestamp = rows[i].created_at
             /\ out[2 * i].id = <<rows[i].id, "-bot">>

C10_Witness ==
  /\ Returned("GET") /\ inv.status = 200
  /\ Len(inv.rows) = MaxPosts
  /\ inv.rows[1].created_at < inv.rows[2].created_at
  /\ Len(inv.resBody.messages) = 2 * MaxPosts

\* ------------------------------------------------------------------ C11
\* C11: after any sequence of chat turns by any principals, every message of
\* a history answer is the user side or the bot side of a stored record
\* whose owner is the caller of that history request; no message comes from
\* a record of another principal.
C11_HistoryOnlyOwnRecords ==
  Returned("GET") /\ inv.resBody.kind = "history" =>
    \A k \in 1 .. Len(inv.resBody.messages) :
      LET m == inv.resBody.messages[k] IN
      /\ inv.caller.kind = "user"
      /\ \A i \in 1 .. Len(chat_messages) :
           chat_messages[i].id = m.id[1] => chat_messages[i].user_id = inv.caller.id
      /\ \E i \in 1 .. Len(chat_messages) :
           LET r == chat_messages[i] IN
           /\ r.id = m.id[1]
           /\ m.timestamp = r.created_at
           /\ \/ m.sender = "user" /\ m.id[2] = "-user" /\ m.text = r.user_query
              \/ m.sender = "bot" /\ m.id[2] = "-bot" /\ m.text = r.bot_response

\* both principals own a record and one of them reads their history
C11_Witness ==
  /\ Returned("GET") /\ inv.status = 200
  /\ Len(inv.resBody.messages) = 2
  /\ \E i, j \in 1 .. Len(chat_messages) :
       /\ chat_messages[i].user_id = inv.caller.id
       /\ chat_messages[j].user_id # inv.caller.id

\* ------------------------------------------------------------------ C12
\* C12: the table is append-only and owner-faithful: a step of the chat or
\* the history handler leaves every stored record as it was, in place, and
\* adds at most one record, which only a chat invocation does and whose
\* owner is the principal that invocation was authenticated as.
C12_AppendOnlyOwned ==
  [][ /\ Len(chat_messages') >= Len(chat_messages)
      /\ SubSeq(chat_messages', 1, Len(chat_messages)) = chat_messages
      /\ chat_messages' # chat_messages =>
           /\ Len(chat_messages') = Len(chat_messages) + 1
           /\ inv'.handler = "POST" /\ inv'.caller.kind = "user"
           /\ chat_messages'[Len(chat_messages')].user_id = inv'.caller.id ]_vars

\* a second record has just been added after the record of another principal
C12_Witness ==
  /\ Returned("POST") /\ Len(chat_messages) = 2
  /\ chat_messages[1].user_id # chat_messages[2].user_id
  /\ chat_messages[2].user_id = inv.caller.id

\* ------------------------------------------------------------------ C13
\* the row a step has just added to the table
Added(table) == table[Len(table)]

IsSystemError(botResponse) ==
  botResponse # << >> /\ Head(botResponse) = "SYSTEM ERROR: "

\* C14: every persisted record whose bot_response is not the system-error
\* sentinel holds exactly the non-empty text the model generated in the
\* invocation that wrote it, and that invocation answered 200 with a reply
\* equal to the stored bot_response; an invocation that answers a failure
\* persists nothing but a sentinel record.
C14_GeneratedTextStored ==
  [][ Len(chat_messages') > Len(chat_messages) =>
        LET r == Added(chat_messages') IN
        /\ ~IsSystemError(r.bot_response) =>
             /\ r.bot_response # << >>
             /\ inv'.result.kind = "response"
             /\ r.bot_response = inv'.result.text
             /\ inv'.status = 200
             /\ inv'.resBody = ReplyBody(r.bot_response)
        /\ inv'.status # 200 => IsSystemError(r.bot_response) ]_vars

\* a generated text was stored and sent
C14_Witness ==
  /\ Succeeded /\ Len(chat_messages) = 1
  /\ ~IsSystemError(chat_messages[1].bot_response)
  /\ chat_messages[1].bot_response = inv.resBody.text
  /\ inv.resBody.text = inv.result.text

\* ------------------------------------------------------------------ C15
\* C15: no retries: an invocation of the chat handler calls the model at
\* most once and attempts at most one insert, also when the model call or
\* the insert fails; it adds at most one record and reports one response.
C15_NoRetry ==
  [][ inv'.handler = "POST" =>
        /\ Len(inv'.prompts) <= 1
        /\ Len(inv'.inserts) <= 1
        /\ Len(chat_messages') <= Len(chat_messages) + 1
        /\ inv'.result.kind = "throws" => inv'.status = 500
        /\ inv'.status \in {200, 400, 401, 500} ]_vars

\* the model answered, the insert was refused, and nothing was tried again
C15_Witness ==
  /\ Succeeded /\ Len(inv.prompts) = 1
  /\ Len(inv.inserts) = 1 /\ ~inv.inserts[1].ok
  /\ chat_messages = << >>

\* ------------------------------------------------------------------ C16
\* this step is a successful chat turn that repeats, for the same principal
\* and with the same query, the successful chat turn that returned just
\* before it
Resubmitted ==
  /\ Succeeded /\ posts' = posts + 1
  /\ inv'.handler = "POST" /\ inv'.status = 200
  /\ inv'.caller = inv.caller
  /\ inv'.body.query = inv.body.query

\* where the record a history message was made from stands in the table,
\* the table being in the order of the submissions
Submission(m) == CHOOSE i \in 1 .. Len(chat_messages) : chat_messages[i].id = m.id[1]

\* the last two rows of the table are the records of two such turns
TwoRecords(table, first, second) ==
  LET n == Len(table) IN
  /\ n >= 2
  /\ table[n - 1].id # table[n].id
  /\ table[n - 1].created_at <= table[n].created_at
  /\ table[n - 1].user_id = first.caller.id /\ table[n].user_id = second.caller.id
  /\ table[n - 1].user_query = first.body.query.v
  /\ table[n].user_query = second.body.query.v
  /\ table[n - 1].bot_response = first.result.text
  /\ table[n].bot_response = second.result.text

\* C16 as stated: two successful submissions of the same query by the same
\* principal, one after the other, make two model calls and yield two
\* distinct records whose created_at is non-decreasing in submission order,
\* and history returns the turns in submission order.
C16_TwoRecordsInOrder ==
  /\ [][ Resubmitted =>
           /\ Len(inv.prompts) = 1 /\ Len(inv'.prompts) = 1
           /\ Len(chat_messages') = Len(chat_messages) + 1
           /\ TwoRecords(chat_messages', inv, inv') ]_vars
  /\ [](Returned("GET") /\ inv.status = 200 =>
          \A k, l \in 1 .. Len(inv.resBody.messages) :
            k < l => Submission(inv.resBody.messages[k])
                       <= Submission(inv.resBody.messages[l]))

\* C16 amended: two such submissions make two model calls and attempt two
\* inserts; when the store accepts both, they yield two distinct records
\* whose created_at is non-decreasing in submission order; history returns
\* turns of different created_at in submission order, and those of equal
\* created_at in either order.
C16_TwoAttemptsInOrder ==
  /\ [][ Resubmitted =>
           /\ Len(inv.prompts) = 1 /\ Len(inv'.prompts) = 1
           /\ Len(inv.inserts) = 1 /\ Len(inv'.inserts) = 1
           /\ inv.inserts[1].ok /\ inv'.inserts[1].ok =>
                /\ Len(chat_messages') = Len(chat_messages) + 1
                /\ TwoRecords(chat_messages', inv, inv') ]_vars
  /\ [](Returned("GET") /\ inv.status = 200 =>
          \A k, l \in 1 .. Len(inv.resBody.messages) :
            k < l => \/ Submission(inv.resBody.messages[k])
                          <= Submission(inv.resBody.messages[l])
                     \/ inv.resBody.messages[k].timestamp
                          = inv.resBody.messages[l].timestamp)

\* the history of a principal who submitted the same query twice, both
\* turns answered with generated text and stored at different times
C16_Witness ==
  /\ Returned("GET") /\ inv.status = 200 /\ Len(inv.rows) = 2
  /\ inv.rows[1].user_query = inv.rows[2].user_query
  /\ ~IsSystemError(inv.rows[1].bot_response)
  /\ ~IsSystemError(inv.rows[2].bot_response)
  /\ inv.rows[1].id # inv.rows[2].id
  /\ inv.rows[1].created_at < inv.rows[2].created_at
  /\ Submission(inv.resBody.messages[1]) < Submission(inv.resBody.messages[4])

\* ------------------------------------------------------------------ C18
\* where the document text starts in the prompt with context
DocumentStart == Len(<<DocumentFraming, "Document Text: ---">>) + 1

\* C18: in a prompt with context, a document text longer than
\* MAX_PDF_TEXT_LENGTH is embedded as exactly its first MAX_PDF_TEXT_LENGTH
\* characters followed by the truncation marker; a document text of at
\* most that length is embedded unchanged and the prompt has no marker.
C18_Truncation ==
  Returned("POST") /\ Len(inv.prompts) = 1 =>
    \A doc \in {Expand(inv.body.pdfText.v)}, prompt \in {Expand(inv.prompts[1])} :
      DocumentSupplied(Str(doc)) =>
        LET n    == IF Len(doc) > MAX_PDF_TEXT_LENGTH THEN MAX_PDF_TEXT_LENGTH
                    ELSE Len(doc)
            rest == SubSeq(prompt, DocumentStart + n, Len(prompt))
        IN  /\ SubSeq(prompt, 1, DocumentStart - 1)
                 = <<DocumentFraming, "Document Text: ---">>
            /\ SubSeq(prompt, DocumentStart, DocumentStart + n - 1) = SubSeq(doc, 1, n)
            /\ IF Len(doc) > MAX_PDF_TEXT_LENGTH
               THEN rest = <<TruncationMarker, "--- User Question: ">>
                             \o inv.body.query.v \o <<"Answer:">>
               ELSE /\ rest = <<"--- User Question: ">> \o inv.body.query.v
                                \o <<"Answer:">>
                    /\ \A i \in 1 .. Len(prompt) : prompt[i] # TruncationMarker

\* a document one character over the limit was cut and marked
C18_Witness ==
  /\ Returned("POST") /\ Len(inv.prompts) = 1
  /\ \E doc \in {Expand(inv.body.pdfText.v)}, prompt \in {Expand(inv.prompts[1])} :
       /\ Len(doc) = MAX_PDF_TEXT_LENGTH + 1
       /\ Len(prompt) = MAX_PDF_TEXT_LENGTH + 6
       /\ prompt[DocumentStart + MAX_PDF_TEXT_LENGTH] = TruncationMarker

\* ------------------------------------------------------------------ C19
BarePrompt(query) == <<"User Question: ">> \o query.v \o <<"Answer:">>

\* C19: for every valid query whose request has no document text (pdfText
\* absent, null, empty, blank, or not a string) the prompt is the bare
\* question, the query and nothing of the document framing; the framing is
\* in the prompt exactly when document text was supplied.
C19_BarePromptWithoutDocument ==
  Returned("POST") /\ Len(inv.prompts) = 1 =>
    LET prompt  == inv.prompts[1]
        pdfText == inv.body.pdfText
    IN  /\ ~DocumentSupplied(pdfText) => prompt = BarePrompt(inv.body.query)
        /\ DocumentSupplied(pdfText) <=>
             \E i \in 1 .. Len(prompt) : prompt[i] = DocumentFraming

\* a blank document text, and the bare prompt that was sent for it
C19_Witness ==
  /\ Returned("POST") /\ Len(inv.prompts) = 1
  /\ inv.body.pdfText = Str(<<" ">>)
  /\ inv.prompts[1] = <<"User Question: ", "a", "Answer:">>

\* ------------------------------------------------------------------ C20
\* C20: the upload handler answers 400 when the 'pdf' field is missing, 400
\* when the file's content type is not application/pdf, 400 when the
\* extraction fails with an error that reports an invalid PDF, 500 when it
\* fails otherwise, and 200 with the extracted text when it succeeds; the
\* extractor is not invoked for a missing file or a wrong content type.
C20_UploadStatus ==
  Returned("UPLOAD") /\ inv.form.kind = "form" =>
    LET file == inv.form.file IN
    /\ file = NoField => inv.status = 400 /\ inv.extractions = << >>
    /\ file.type # "application/pdf" => inv.status = 400 /\ inv.extractions = << >>
    /\ Len(inv.extractions) <= 1
    /\ inv.extractions # << >> =>
         LET extracted == inv.extractions[1] IN
         /\ file.type = "application/pdf"
         /\ extracted.kind = "text" =>
              inv.status = 200 /\ inv.resBody = TextBody(extracted.text)
         /\ extracted.kind = "throws" =>
              /\ inv.thrown.is
              /\ inv.status = (IF Includes(inv.thrown.message, "Invalid PDF")
                               THEN 400 ELSE 500)
              /\ inv.resBody.kind = "error"

\* the extractor rejected a PDF file as invalid and the answer was 400
C20_Witness ==
  /\ Returned("UPLOAD") /\ inv.status = 400
  /\ inv.form.file = FileField("application/pdf")
  /\ Len(inv.extractions) = 1 /\ inv.extractions[1].kind = "throws"
  /\ inv.thrown.message = <<"Invalid PDF", " structure">>

\* ------------------------------------------------------------------ C17
\* this step merges a history response into the messages on display
MergeStep == loads' = loads - 1 /\ inv'.handler = "GET" /\ inv'.status = 200

\* a is b with some elements left out
RECURSIVE IsSubsequence(_, _)
IsSubsequence(a, b) ==
  IF a = << >> THEN TRUE
  ELSE IF b = << >> THEN FALSE
  ELSE IF Head(a) = Head(b) THEN IsSubsequence(Tail(a), Tail(b))
  ELSE IsSubsequence(a, Tail(b))

Occurrences(s, id) == Cardinality({i \in 1 .. Len(s) : s[i].id = id})

\* C17: when a history response is merged, fetched messages whose id is
\* already on display are dropped and the others are added, the combined
\* list is in ascending order of timestamp, and any two messages that were
\* on display before the merge keep their relative order.
C17_MergeKeepsOrder ==
  [][ MergeStep =>
        LET prev   == messages
            hist   == inv'.resBody.messages
            merged == SubSeq(messages', 1, Len(messages') - 1)
        IN  /\ \A k \in 1 .. Len(hist) :
                 Occurrences(merged, hist[k].id) =
                   IF Occurrences(prev, hist[k].id) > 0
                   THEN Occurrences(prev, hist[k].id) ELSE 1
            /\ Len(merged) >= Len(prev)
            /\ \A i, j \in 1 .. Len(merged) :
                 i < j => merged[i].timestamp <= merged[j].timestamp
            /\ IsSubsequence(prev, merged) ]_vars

\* ------------------------------------------------------------------ C21
\* the middleware answered a request
Handled == nav.pathname # << >>

\* a pathname that begins with the characters of route
BeginsWith(pathname, route) ==
  \E rest \in PathTails(MaxSegments) : pathname = route \o rest

\* a pathname that is route or lies under it: route, then whole segments
Under(pathname, route) ==
  /\ BeginsWith(pathname, route)
  /\ Len(pathname) > Len(route) => pathname[Len(route) + 1] = "/x"

\* C21 as stated: a request to a path under /chatbot without a session is
\* redirected to /login, a request to /login or /register (or a path under
\* them) with a session is redirected to /chatbot, and every other request
\* the middleware handles passes through.
C21_RedirectsOnlyUnderRoutes ==
  Handled =>
    LET protected == Under(nav.pathname, <<"/chatbot">>) /\ ~Truthy(nav.session)
        auth      == /\ \/ Under(nav.pathname, <<"/login">>)
                        \/ Under(nav.pathname, <<"/register">>)
                     /\ Truthy(nav.session)
    IN  /\ protected => nav.response = Redirect(<<"/login">>)
        /\ auth => nav.response = Redirect(<<"/chatbot">>)
        /\ ~protected /\ ~auth => nav.response = PassThrough

\* C21 amended: the routes are matched by prefix.  A request whose pathname
\* begins with /chatbot and has no session is redirected to /login, a
\* request whose pathname begins with /login or /register and has a session
\* is redirected to /chatbot, and every other request passes through.
C21_RedirectsByPrefix ==
  Handled =>
    LET protected == BeginsWith(nav.pathname, <<"/chatbot">>) /\ ~Truthy(nav.session)
        auth      == /\ \/ BeginsWith(nav.pathname, <<"/login">>)
                        \/ BeginsWith(nav.pathname, <<"/register">>)
                     /\ Truthy(nav.session)
    IN  /\ protected => nav.response = Redirect(<<"/login">>)
        /\ auth => nav.response = Redirect(<<"/chatbot">>)
        /\ ~protected /\ ~auth => nav.response = PassThrough

\* a request without a session to a pathname that only begins with /chatbot
C21_Witness ==
  /\ nav.pathname = <<"/chatbot", "x">>
  /\ nav.session = Null
  /\ nav.redirects = 0
  /\ nav.response = Redirect(<<"/login">>)

\* ------------------------------------------------------------------ C28
\* C28: for every pathname and every fixed session, following the
\* middleware's redirects reaches a pass-through response, and the response
\* to a request that a redirect led to is already a pass-through.
C28_NoRedirectLoop ==
  /\ [](nav.redirects >= 1 => nav.response = PassThrough)
  /\ (nav.response.kind = "redirect" ~> nav.response = PassThrough)

\* a redirect was followed and its target passed through
C28_Witness ==
  /\ nav.redirects = 1
  /\ nav.pathname = <<"/chatbot">>
  /\ Truthy(nav.session)
  /\ nav.response = PassThrough

\* ------------------------------------------------------------------ C29
\* C29: the user the AuthProvider exposes is null exactly when its session
\* is null, and once the onAuthStateChange listener has set the session,
\* the exposed session is the one the auth client holds: the result of the
\* initial getSession() call resolving later does not replace it with an
\* older value.
C29_SessionIsMostRecent ==
  /\ authUser = Null <=> session = Null
  /\ authEvents > 0 => session = authSession

\* ------------------------------------------------------------------ C25
\* the step in which handleSubmitQuery finishes: its request was answered
\* (the handler ran) or failed
SubmitFinishes == chatFetch.state = "sent" /\ chatFetch'.state = "none"
Answered       == posts' = posts + 1

\* C25: a submitted query whose request completes or fails eventually leaves
\* isProcessingQuery false, and the step that finishes it appends exactly
\* one message to the display, which then ends with that message: a bot
\* message carrying the reply on an ok response, an error system message on
\* a non-ok response or a failed request.  While the request is pending the
\* optimistic user message is on display.
C25_SubmitSettles ==
  /\ isProcessingQuery ~> ~isProcessingQuery
  /\ [](chatFetch.state = "sent" =>
          /\ isProcessingQuery
          /\ \E i \in 1 .. Len(messages) :
               messages[i].sender = "user" /\ messages[i].text = chatFetch.query)
  /\ [][SubmitFinishes =>
          /\ ~isProcessingQuery'
          /\ Len(messages') = Len(messages) + 1
          /\ SubSeq(messages', 1, Len(messages)) = messages
          /\ LET m == messages'[Len(messages')]
             IN  IF Answered /\ inv'.status = 200
                 THEN /\ m.sender = "bot"
                      /\ m.text = inv'.resBody.text
                      /\ inv'.resBody.kind = "reply"
                 ELSE /\ m.sender = "system"
                      /\ Head(m.text) = "Chat Error: "]_vars

\* one turn ended with the reply, the next with an error message
C25_Witness ==
  /\ ~isProcessingQuery
  /\ Len(messages) = 4
  /\ messages[1].sender = "user" /\ messages[2].sender = "bot"
  /\ messages[2].text = <<"r">>
  /\ messages[3].sender = "user" /\ messages[4].sender = "system"
  /\ Head(messages[4].text) = "Chat Error: "

\* ------------------------------------------------------------------ C26
\* C26: whenever no upload is in flight, the active PDF name is null
\* exactly when the stored PDF text is null.
C26_NameIffText ==
  ~isUploadingPdf => (pdfName = Null <=> uploadedPdfText = Null)

\* ------------------------------------------------------------------ C27
\* the page has just shown the reply of a successful chat turn
ReplyShown ==
  /\ Succeeded
  /\ chatFetch.state = "none"
  /\ messages # << >>
  /\ messages[Len(messages)].sender = "bot"

\* C27: the context flag on the live bot message of a successful chat turn
\* reads as the pdf_context_used value the handler computed for that turn
\* and sent to the store.
C27_LiveFlagIsServerFlag ==
  ReplyShown =>
    /\ Len(inv.inserts) = 1
    /\ Truthy(messages[Len(messages)].pdfContextUsed)
         = Truthy(inv.inserts[1].payload.pdf_context_used)

\* ------------------------------------------------------------------ C22
\* C22: each chat turn of a chatbot-page session is on display at most
\* once, whatever queries were submitted and whatever history loads
\* succeeded or failed: no two user messages on display show the same turn.
C22_TurnShownOnce ==
  \A q \in Queries :
    Cardinality({i \in 1 .. Len(messages) :
                   messages[i].sender = "user" /\ messages[i].text = q}) <= 1

\* ------------------------------------------------------------------ C23
\* C23: the messages on display have pairwise distinct ids.
C23_DistinctIds ==
  \A i, j \in 1 .. Len(messages) : messages[i].id = messages[j].id => i = j

\* ------------------------------------------------------------------ C24
\* requests of the page that await their response
InFlight ==
  loads + (IF chatFetch.state = "sent" THEN 1 ELSE 0)
        + (IF uploadFetch.state = "sent" THEN 1 ELSE 0)

\* C24: at most one request started by the chatbot page (chat query, PDF
\* upload or history fetch) is in flight at any time.
C24_OneRequestInFlight == InFlight <= 1

====
